---------------------------- MODULE Spec2Model ----------------------------
(***************************************************************************)
(* A model of the jqesque crate: the Query object (src/src/types.rs), the  *)
(* tree mutators insert_value and merge_json (src/src/manipulators.rs) and *)
(* the nom parser (src/src/parse.rs).                                      *)
(*                                                                         *)
(* Strings are sequences of one-character strings, so that escaping,       *)
(* pointer rendering and parsing are computed character by character.      *)
(* A JSON value is a record of one shape for every variant:                *)
(*   t: the variant, s: the text of a scalar, a: the elements of an array, *)
(*   o: the members of an object as a set of <<name, value>> pairs.        *)
(***************************************************************************)
EXTENDS Integers, Sequences, FiniteSets, TLC

VARIABLES pc, base, json, prev, query, result, trace, other, input, parsed, rendered

vars == <<pc, base, json, prev, query, result, trace, other, input, parsed, rendered>>

-----------------------------------------------------------------------------
(* Bounds of the model.                                                    *)

\* Longest token path of a hand-constructed or enumerated query.
MaxPathLen == 2

\* Largest array index used in a token.
MaxIndex == 1

\* the longest input text that is enumerated in full
MaxInputLen == 5

-----------------------------------------------------------------------------
(* serde_json::Value                                                       *)

JNull == [t |-> "null", s |-> <<>>, a |-> <<>>, o |-> {}]

JBool(cs) == [t |-> "bool", s |-> cs, a |-> <<>>, o |-> {}]

JNum(cs) == [t |-> "num", s |-> cs, a |-> <<>>, o |-> {}]

JStr(cs) == [t |-> "str", s |-> cs, a |-> <<>>, o |-> {}]

JArr(elems) == [t |-> "arr", s |-> <<>>, a |-> elems, o |-> {}]

JObj(members) == [t |-> "obj", s |-> <<>>, a |-> <<>>, o |-> members]

is_object(v) == v.t = "obj"

is_array(v) == v.t = "arr"

\* Map::contains_key
HasKey(obj, k) == \E p \in obj.o : p[1] = k

\* Map::get, for a key that is present
Get(obj, k) == (CHOOSE p \in obj.o : p[1] = k)[2]

\* Map::insert: the member is set, replacing an older one of the same name
Put(obj, k, v) == JObj({p \in obj.o : p[1] # k} \cup {<<k, v>>})

\* Map::remove
Del(obj, k) == JObj({p \in obj.o : p[1] # k})

\* Vec::resize(new_len, fill)
Resize(arr, n, fill) == [i \in 1..n |-> IF i <= Len(arr) THEN arr[i] ELSE fill]

\* Vec::insert(idx, v), idx counted from 0
VecInsert(arr, idx, v) ==
    [i \in 1..(Len(arr) + 1) |->
        IF i <= idx THEN arr[i] ELSE IF i = idx + 1 THEN v ELSE arr[i - 1]]

\* Vec::remove(idx), idx counted from 0
VecRemove(arr, idx) ==
    [i \in 1..(Len(arr) - 1) |-> IF i <= idx THEN arr[i] ELSE arr[i + 1]]

-----------------------------------------------------------------------------
(* PathToken, Option<Value>, Operation                                     *)

Key(name) == [k |-> "Key", name |-> name, idx |-> 0]

Index(n) == [k |-> "Index", name |-> <<>>, idx |-> n]

None == [some |-> FALSE, v |-> JNull]

Some(v) == [some |-> TRUE, v |-> v]

Operations == {"Insert", "Merge", "Add", "Remove", "Replace", "Test", "Auto"}

-----------------------------------------------------------------------------
(* manipulators.rs                                                         *)

RECURSIVE insert_value(_, _, _)
\* insert_value with the Index arm inserting a new slot at the index
\* (Vec::insert) where the code overwrites the slot
insert_value_shift(json_obj, tokens, value) ==
    LET v == IF value.some THEN value.v ELSE JNull
    IN  IF tokens = <<>>
        THEN v
        ELSE LET tok == Head(tokens)
             IN  IF tok.k = "Key"
                 THEN LET obj == IF is_object(json_obj) THEN json_obj ELSE JObj({})
                          entry == IF HasKey(obj, tok.name)
                                   THEN Get(obj, tok.name) ELSE JNull
                      IN  Put(obj, tok.name,
                              insert_value(entry, Tail(tokens), Some(v)))
                 ELSE LET arr == IF is_array(json_obj) THEN json_obj.a ELSE <<>>
                          grown == IF tok.idx >= Len(arr)
                                   THEN Resize(arr, tok.idx, JNull) ELSE arr
                      IN  JArr(VecInsert(grown, tok.idx,
                              insert_value(JNull, Tail(tokens), Some(v))))

\* insert_value with the Index arm resizing to index + 1 whatever the length
\* (no `if *index >= array.len()`): a longer array is cut
insert_value_resize(json_obj, tokens, value) ==
    LET v == IF value.some THEN value.v ELSE JNull
    IN  IF tokens = <<>>
        THEN v
        ELSE LET tok == Head(tokens)
             IN  IF tok.k = "Key"
                 THEN LET obj == IF is_object(json_obj) THEN json_obj ELSE JObj({})
                          entry == IF HasKey(obj, tok.name)
                                   THEN Get(obj, tok.name) ELSE JNull
                      IN  Put(obj, tok.name,
                              insert_value(entry, Tail(tokens), Some(v)))
                 ELSE LET arr == IF is_array(json_obj) THEN json_obj.a ELSE <<>>
                          grown == Resize(arr, tok.idx + 1, JNull)
                      IN  JArr([grown EXCEPT ![tok.idx + 1] =
                              insert_value(grown[tok.idx + 1], Tail(tokens), Some(v))])

insert_value(json_obj, tokens, value) ==
    LET v == IF value.some THEN value.v ELSE JNull
    IN  IF tokens = <<>>
        THEN v
        ELSE LET tok == Head(tokens)
             IN  IF tok.k = "Key"
                 THEN LET obj == IF is_object(json_obj) THEN json_obj ELSE JObj({})
                          entry == IF HasKey(obj, tok.name)
                                   THEN Get(obj, tok.name) ELSE JNull
                      IN  Put(obj, tok.name,
                              insert_value(entry, Tail(tokens), Some(v)))
                 ELSE LET arr == IF is_array(json_obj) THEN json_obj.a ELSE <<>>
                          grown == IF tok.idx >= Len(arr)
                                   THEN Resize(arr, tok.idx + 1, JNull) ELSE arr
                      IN  JArr([grown EXCEPT ![tok.idx + 1] =
                              insert_value(grown[tok.idx + 1], Tail(tokens), Some(v))])

RECURSIVE merge_json(_, _)
RECURSIVE merge_array(_, _, _)
\* merge_array cutting a_array down to the length of b_array
merge_array_truncate(a_array, b_array, i) ==
    IF i > Len(b_array)
    THEN SubSeq(a_array, 1, Len(b_array))
    ELSE IF i <= Len(a_array)
         THEN merge_array([a_array EXCEPT ![i] = merge_json(a_array[i], b_array[i])],
                          b_array, i + 1)
         ELSE merge_array(Append(a_array, b_array[i]), b_array, i + 1)

\* the array arm's loop over b_array, at its element i (counted from 1)
merge_array(a_array, b_array, i) ==
    IF i > Len(b_array)
    THEN a_array
    ELSE IF i <= Len(a_array)
         THEN merge_array([a_array EXCEPT ![i] = merge_json(a_array[i], b_array[i])],
                          b_array, i + 1)
         ELSE merge_array(Append(a_array, b_array[i]), b_array, i + 1)

\* merge_json with a shallow object arm: a member named in b is overwritten
merge_json_shallow(a, b) ==
    IF is_object(a) /\ is_object(b)
    THEN JObj({p \in a.o : ~HasKey(b, p[1])} \cup b.o)
    ELSE IF is_array(a) /\ is_array(b)
         THEN JArr(merge_array(a.a, b.a, 1))
         ELSE b

\* merge_json with the object arm of RFC 7396: a member b holds as null is
\* removed from a
merge_json_rfc7396(a, b) ==
    IF is_object(a) /\ is_object(b)
    THEN JObj({p \in a.o : ~HasKey(b, p[1])}
              \cup {<<p[1], merge_json(IF HasKey(a, p[1]) THEN Get(a, p[1]) ELSE JNull,
                                       p[2])>> : p \in {q \in b.o : q[2] # JNull}})
    ELSE IF is_array(a) /\ is_array(b)
         THEN JArr(merge_array(a.a, b.a, 1))
         ELSE b

merge_json(a, b) ==
    IF is_object(a) /\ is_object(b)
    THEN JObj({p \in a.o : ~HasKey(b, p[1])}
              \cup {<<p[1], merge_json(IF HasKey(a, p[1]) THEN Get(a, p[1]) ELSE JNull,
                                       p[2])>> : p \in b.o})
    ELSE IF is_array(a) /\ is_array(b)
         THEN JArr(merge_array(a.a, b.a, 1))
         ELSE b

-----------------------------------------------------------------------------
(* Text helpers                                                            *)

Digits == <<"0", "1", "2", "3", "4", "5", "6", "7", "8", "9">>

IsDigit(c) == \E d \in 1..10 : Digits[d] = c

DigitValue(c) == (CHOOSE d \in 1..10 : Digits[d] = c) - 1

\* str::replace(c, rep) for a one-character pattern
RECURSIVE ReplaceChar(_, _, _)
ReplaceChar(str, c, rep) ==
    IF str = <<>>
    THEN <<>>
    ELSE (IF Head(str) = c THEN rep ELSE <<Head(str)>>)
         \o ReplaceChar(Tail(str), c, rep)

\* usize::to_string
RECURSIVE to_string(_)
to_string(n) ==
    IF n < 10 THEN <<Digits[n + 1]>> ELSE to_string(n \div 10) \o <<Digits[(n % 10) + 1]>>

\* str::parse::<usize> of a non-empty run of digits
RECURSIVE ParseDigits(_)
ParseDigits(str) ==
    IF Len(str) = 1
    THEN DigitValue(str[1])
    ELSE 10 * ParseDigits(SubSeq(str, 1, Len(str) - 1)) + DigitValue(str[Len(str)])

AllDigits(str) == str # <<>> /\ \A i \in 1..Len(str) : IsDigit(str[i])

-----------------------------------------------------------------------------
(* The pointer bridge (types.rs) and the jsonptr / json_patch crates it    *)
(* hands the pointer to.  The crates are modelled by RFC 6901 / RFC 6902   *)
(* as they implement them.                                                 *)

escape_json_pointer_segment(segment) ==
    ReplaceChar(ReplaceChar(segment, "~", <<"~", "0">>), "/", <<"~", "1">>)

\* jsonptr::Token::new: takes the raw text of a token and encodes it
\* ('~' as "~0", '/' as "~1") in one pass
RECURSIVE TokenNew(_)
TokenNew(raw) ==
    IF raw = <<>>
    THEN <<>>
    ELSE (IF Head(raw) = "~" THEN <<"~", "0">>
          ELSE IF Head(raw) = "/" THEN <<"~", "1">>
          ELSE <<Head(raw)>>) \o TokenNew(Tail(raw))

\* PointerToken rendering an index between brackets, apart from any key
PointerTokenBracketed(token) ==
    IF token.k = "Key"
    THEN TokenNew(escape_json_pointer_segment(token.name))
    ELSE TokenNew(<<"[">> \o to_string(token.idx) \o <<"]">>)

\* the closure of tokens_to_pointer: one encoded pointer token per PathToken
PointerToken(token) ==
    IF token.k = "Key"
    THEN TokenNew(escape_json_pointer_segment(token.name))
    ELSE TokenNew(to_string(token.idx))

\* PointerBuf::from_tokens over the mapped tokens: "/" before every token
RECURSIVE tokens_to_pointer(_)
tokens_to_pointer(tokens) ==
    IF tokens = <<>>
    THEN <<>>
    ELSE <<"/">> \o PointerToken(Head(tokens)) \o tokens_to_pointer(Tail(tokens))

\* The encoded tokens of a pointer: the text between the "/" characters.
RECURSIVE PointerTokens(_)
PointerTokens(ptr) ==
    IF ptr = <<>>
    THEN <<>>
    ELSE LET rest == Tail(ptr)
             stop == IF \E i \in 1..Len(rest) : rest[i] = "/"
                     THEN CHOOSE i \in 1..Len(rest) :
                              rest[i] = "/" /\ \A j \in 1..(i - 1) : rest[j] # "/"
                     ELSE Len(rest) + 1
         IN  <<SubSeq(rest, 1, stop - 1)>>
             \o PointerTokens(SubSeq(rest, stop, Len(rest)))

\* Token::decoded: "~1" is '/', "~0" is '~'
RECURSIVE Decode(_)
Decode(enc) ==
    IF enc = <<>>
    THEN <<>>
    ELSE IF Head(enc) = "~" /\ Len(enc) >= 2 /\ enc[2] \in {"0", "1"}
         THEN <<IF enc[2] = "0" THEN "~" ELSE "/">> \o Decode(SubSeq(enc, 3, Len(enc)))
         ELSE <<Head(enc)>> \o Decode(Tail(enc))

\* Token::to_index: "-" is the end of the array, a run of digits with no
\* leading zero is a position, anything else is an error
to_index(tok) ==
    IF tok = <<"-">>
    THEN [kind |-> "Next", n |-> 0]
    ELSE IF AllDigits(tok) /\ (tok[1] # "0" \/ Len(tok) = 1)
         THEN [kind |-> "Num", n |-> ParseDigits(tok)]
         ELSE [kind |-> "Err", n |-> 0]

Unresolved == [ok |-> FALSE, v |-> JNull]

\* Pointer::resolve / Value::pointer_mut over decoded tokens
RECURSIVE Resolve(_, _)
Resolve(doc, toks) ==
    IF toks = <<>>
    THEN [ok |-> TRUE, v |-> doc]
    ELSE LET tok == Decode(Head(toks))
         IN  IF is_object(doc)
             THEN IF HasKey(doc, tok) THEN Resolve(Get(doc, tok), Tail(toks))
                  ELSE Unresolved
             ELSE IF is_array(doc)
                  THEN LET ix == to_index(tok)
                       IN  IF ix.kind = "Num" /\ ix.n < Len(doc.a)
                           THEN Resolve(doc.a[ix.n + 1], Tail(toks))
                           ELSE Unresolved
                  ELSE Unresolved

\* The document with the location the tokens resolve to overwritten by v.
RECURSIVE SetAt(_, _, _)
SetAt(doc, toks, v) ==
    IF toks = <<>>
    THEN v
    ELSE LET tok == Decode(Head(toks))
         IN  IF is_object(doc)
             THEN Put(doc, tok, SetAt(Get(doc, tok), Tail(toks), v))
             ELSE JArr([doc.a EXCEPT ![to_index(tok).n + 1] =
                           SetAt(doc.a[to_index(tok).n + 1], Tail(toks), v)])

Front(seq) == SubSeq(seq, 1, Len(seq) - 1)

Last(seq) == seq[Len(seq)]

PatchOk(doc) == [ok |-> TRUE, json |-> doc]

\* a failed patch of one operation leaves the document as it was
PatchErr(doc) == [ok |-> FALSE, json |-> doc]

\* json_patch replace that adds where the location does not exist
PatchReplaceOrAdd(doc, ptr, value) ==
    LET toks == PointerTokens(ptr)
    IN  IF Resolve(doc, toks).ok THEN PatchOk(SetAt(doc, toks, value))
        ELSE LET parent == Resolve(doc, Front(toks))
             IN  IF parent.ok /\ is_object(parent.v)
                 THEN PatchOk(SetAt(doc, Front(toks),
                                    Put(parent.v, Decode(Last(toks)), value)))
                 ELSE PatchErr(doc)

\* json_patch: replace
PatchReplace(doc, ptr, value) ==
    LET toks == PointerTokens(ptr)
    IN  IF Resolve(doc, toks).ok THEN PatchOk(SetAt(doc, toks, value))
        ELSE PatchErr(doc)

\* json_patch add assigning to an array slot that exists, where the code
\* inserts before it
PatchAddInPlace(doc, ptr, value) ==
    LET toks == PointerTokens(ptr)
    IN  IF toks = <<>>
        THEN PatchOk(value)
        ELSE LET parent == Resolve(doc, Front(toks))
                 last == Decode(Last(toks))
             IN  IF ~parent.ok
                 THEN PatchErr(doc)
                 ELSE IF is_object(parent.v)
                      THEN PatchOk(SetAt(doc, Front(toks), Put(parent.v, last, value)))
                      ELSE IF is_array(parent.v)
                           THEN LET ix == to_index(last)
                                    at == IF ix.kind = "Next" THEN Len(parent.v.a)
                                          ELSE ix.n
                                IN  IF ix.kind = "Err" \/ at > Len(parent.v.a)
                                    THEN PatchErr(doc)
                                    ELSE IF at < Len(parent.v.a)
                                         THEN PatchOk(SetAt(doc, toks, value))
                                         ELSE PatchOk(SetAt(doc, Front(toks),
                                                  JArr(parent.v.a \o <<value>>)))
                           ELSE PatchErr(doc)

\* json_patch: add
PatchAdd(doc, ptr, value) ==
    LET toks == PointerTokens(ptr)
    IN  IF toks = <<>>
        THEN PatchOk(value)
        ELSE LET parent == Resolve(doc, Front(toks))
                 last == Decode(Last(toks))
             IN  IF ~parent.ok
                 THEN PatchErr(doc)
                 ELSE IF is_object(parent.v)
                      THEN PatchOk(SetAt(doc, Front(toks), Put(parent.v, last, value)))
                      ELSE IF is_array(parent.v)
                           THEN LET ix == to_index(last)
                                    at == IF ix.kind = "Next" THEN Len(parent.v.a)
                                          ELSE ix.n
                                IN  IF ix.kind = "Err" \/ at > Len(parent.v.a)
                                    THEN PatchErr(doc)
                                    ELSE PatchOk(SetAt(doc, Front(toks),
                                             JArr(VecInsert(parent.v.a, at, value))))
                           ELSE PatchErr(doc)

\* json_patch: remove
PatchRemove(doc, ptr) ==
    LET toks == PointerTokens(ptr)
    IN  IF toks = <<>>
        THEN PatchErr(doc)
        ELSE LET parent == Resolve(doc, Front(toks))
                 last == Decode(Last(toks))
             IN  IF ~parent.ok
                 THEN PatchErr(doc)
                 ELSE IF is_object(parent.v)
                      THEN IF HasKey(parent.v, last)
                           THEN PatchOk(SetAt(doc, Front(toks), Del(parent.v, last)))
                           ELSE PatchErr(doc)
                      ELSE IF is_array(parent.v)
                           THEN LET ix == to_index(last)
                                IN  IF ix.kind = "Num" /\ ix.n < Len(parent.v.a)
                                    THEN PatchOk(SetAt(doc, Front(toks),
                                             JArr(VecRemove(parent.v.a, ix.n))))
                                    ELSE PatchErr(doc)
                           ELSE PatchErr(doc)

-----------------------------------------------------------------------------
(* serde_json::from_str, which json_value calls: the JSON grammar of       *)
(* RFC 8259 (without the \b and \u escapes).  A number is held as its text. *)

\* the character at position i, or "" past the end
Char(str, i) == IF i >= 1 /\ i <= Len(str) THEN str[i] ELSE ""

From(str, i) == SubSeq(str, i, Len(str))

StartsWith(str, i, lit) ==
    /\ i + Len(lit) - 1 <= Len(str)
    /\ SubSeq(str, i, i + Len(lit) - 1) = lit

IsWhitespace(c) == c \in {" ", "\t", "\n", "\r"}

RECURSIVE SkipWhitespace(_, _)
SkipWhitespace(str, i) ==
    IF IsWhitespace(Char(str, i)) THEN SkipWhitespace(str, i + 1) ELSE i

\* str::trim_end
RECURSIVE TrimEnd(_)
TrimEnd(str) ==
    IF str # <<>> /\ IsWhitespace(str[Len(str)]) THEN TrimEnd(SubSeq(str, 1, Len(str) - 1))
    ELSE str

\* str::trim
Trim(str) == TrimEnd(From(str, SkipWhitespace(str, 1)))

RECURSIVE DigitsEnd(_, _)
\* the position after the run of digits that starts at i
DigitsEnd(str, i) == IF IsDigit(Char(str, i)) THEN DigitsEnd(str, i + 1) ELSE i

JsonFail == [ok |-> FALSE, v |-> JNull, i |-> 0]

JsonOk(v, i) == [ok |-> TRUE, v |-> v, i |-> i]

\* -? (0 | [1-9][0-9]*) (. [0-9]+)? ([eE] [+-]? [0-9]+)?
JsonNumber(str, i) ==
    LET int == IF Char(str, i) = "-" THEN i + 1 ELSE i
        intEnd == IF Char(str, int) = "0" THEN int + 1 ELSE DigitsEnd(str, int)
        fracEnd == IF Char(str, intEnd) = "." THEN DigitsEnd(str, intEnd + 1) ELSE intEnd
        exp == IF Char(str, fracEnd) \in {"e", "E"}
               THEN (IF Char(str, fracEnd + 1) \in {"+", "-"}
                     THEN fracEnd + 2 ELSE fracEnd + 1)
               ELSE fracEnd
        expEnd == IF exp > fracEnd THEN DigitsEnd(str, exp) ELSE fracEnd
    IN  IF \/ intEnd = int
           \/ Char(str, intEnd) = "." /\ fracEnd = intEnd + 1
           \/ exp > fracEnd /\ expEnd = exp
        THEN JsonFail
        ELSE JsonOk(JNum(SubSeq(str, i, expEnd - 1)), expEnd)

JsonEscapes ==
    { <<"\"", "\"">>, <<"\\", "\\">>, <<"/", "/">>, <<"n", "\n">>, <<"r", "\r">>,
      <<"t", "\t">>, <<"f", "\f">> }

RECURSIVE JsonChars(_, _, _)
\* the characters of a string up to its closing quote
JsonChars(str, i, acc) ==
    LET c == Char(str, i)
    IN  IF c = "" \/ c \in {"\n", "\r", "\t", "\f"}
        THEN JsonFail
        ELSE IF c = "\""
             THEN JsonOk(JStr(acc), i + 1)
             ELSE IF c = "\\"
                  THEN IF \E e \in JsonEscapes : e[1] = Char(str, i + 1)
                       THEN JsonChars(str, i + 2,
                                Append(acc, (CHOOSE e \in JsonEscapes :
                                                 e[1] = Char(str, i + 1))[2]))
                       ELSE JsonFail
                  ELSE JsonChars(str, i + 1, Append(acc, c))

RECURSIVE JsonValue(_, _)
RECURSIVE JsonElements(_, _, _)
RECURSIVE JsonMembers(_, _, _)

\* after the element elem of an array: "," and more elements, or "]"
JsonElementsNext(str, acc, elem) ==
    IF ~elem.ok
    THEN JsonFail
    ELSE IF Char(str, elem.i) = ","
         THEN JsonElements(str, elem.i + 1, Append(acc, elem.v))
         ELSE IF Char(str, elem.i) = "]"
              THEN JsonOk(JArr(Append(acc, elem.v)), elem.i + 1)
              ELSE JsonFail

\* the elements of an array after its "[" (or after a ","), up to its "]"
JsonElements(str, i, acc) == JsonElementsNext(str, acc, JsonValue(str, i))

\* after the value of the member name: "," and more members, or "}"
JsonMemberValue(str, acc, name, member) ==
    IF ~member.ok
    THEN JsonFail
    ELSE IF Char(str, member.i) = ","
         THEN JsonMembers(str, member.i + 1, Put(acc, name, member.v))
         ELSE IF Char(str, member.i) = "}"
              THEN JsonOk(Put(acc, name, member.v), member.i + 1)
              ELSE JsonFail

\* after the name of a member: ":" and its value
JsonMemberColon(str, acc, name) ==
    IF name.ok /\ Char(str, SkipWhitespace(str, name.i)) = ":"
    THEN JsonMemberValue(str, acc, name.v.s,
                         JsonValue(str, SkipWhitespace(str, name.i) + 1))
    ELSE JsonFail

\* the members of an object after its "{" (or after a ","), up to its "}"
JsonMembers(str, i, acc) ==
    IF Char(str, SkipWhitespace(str, i)) = "\""
    THEN JsonMemberColon(str, acc, JsonChars(str, SkipWhitespace(str, i) + 1, <<>>))
    ELSE JsonFail

\* one value, from its first character at position at
JsonLeading(str, at) ==
    CASE StartsWith(str, at, <<"n", "u", "l", "l">>) -> JsonOk(JNull, at + 4)
      [] StartsWith(str, at, <<"t", "r", "u", "e">>) ->
             JsonOk(JBool(<<"t", "r", "u", "e">>), at + 4)
      [] StartsWith(str, at, <<"f", "a", "l", "s", "e">>) ->
             JsonOk(JBool(<<"f", "a", "l", "s", "e">>), at + 5)
      [] Char(str, at) = "\"" -> JsonChars(str, at + 1, <<>>)
      [] Char(str, at) = "[" ->
             IF Char(str, SkipWhitespace(str, at + 1)) = "]"
             THEN JsonOk(JArr(<<>>), SkipWhitespace(str, at + 1) + 1)
             ELSE JsonElements(str, at + 1, <<>>)
      [] Char(str, at) = "{" ->
             IF Char(str, SkipWhitespace(str, at + 1)) = "}"
             THEN JsonOk(JObj({}), SkipWhitespace(str, at + 1) + 1)
             ELSE JsonMembers(str, at + 1, JObj({}))
      [] Char(str, at) = "-" \/ IsDigit(Char(str, at)) -> JsonNumber(str, at)
      [] OTHER -> JsonFail

\* the whitespace after a value
JsonTrailing(str, v) ==
    IF v.ok THEN JsonOk(v.v, SkipWhitespace(str, v.i)) ELSE JsonFail

\* one value with the whitespace around it
JsonValue(str, i) == JsonTrailing(str, JsonLeading(str, SkipWhitespace(str, i)))

\* nothing but the value v in str
JsonEnd(str, v) == IF v.ok /\ v.i = Len(str) + 1 THEN v ELSE JsonFail

\* serde_json::from_str: one value and nothing after it
from_str(str) == JsonEnd(str, JsonValue(str, 1))

-----------------------------------------------------------------------------
(* parse.rs: the nom parsers, each from a position i of the input to the   *)
(* position after what it consumed.                                        *)

Letters ==
    {"a", "b", "c", "d", "e", "f", "g", "h", "i", "j", "k", "l", "m", "n", "o",
     "p", "q", "r", "s", "t", "u", "v", "w", "x", "y", "z"}

\* char::is_alphanumeric, over the characters of the model
is_alphanumeric(c) == c \in Letters \/ IsDigit(c)

\* Operation::operators
operators == {">", "~", "+", "-", "=", "?"}

\* from_operator with the arms of '>' and '+' exchanged
from_operator_exchanged(c) ==
    CASE c = ">" -> "Add"
      [] c = "~" -> "Merge"
      [] c = "+" -> "Insert"
      [] c = "-" -> "Remove"
      [] c = "=" -> "Replace"
      [] c = "?" -> "Test"

\* Operation::from_operator
from_operator(c) ==
    CASE c = ">" -> "Insert"
      [] c = "~" -> "Merge"
      [] c = "+" -> "Add"
      [] c = "-" -> "Remove"
      [] c = "=" -> "Replace"
      [] c = "?" -> "Test"

\* Separator::as_char of Separator::Dot
Dot == "."

NomErr == [ok |-> FALSE, i |-> 0, out |-> <<>>]

NomOk(i, out) == [ok |-> TRUE, i |-> i, out |-> out]

RECURSIVE IdentifierEnd(_, _)
IdentifierEnd(str, i) ==
    IF is_alphanumeric(Char(str, i)) \/ Char(str, i) \in {"_", "-"}
    THEN IdentifierEnd(str, i + 1)
    ELSE i

\* take_while1 of alphanumeric, '_' and '-'
valid_identifier(str, i) ==
    LET stop == IdentifierEnd(str, i)
    IN  IF stop = i THEN NomErr ELSE NomOk(stop, SubSeq(str, i, stop - 1))

RECURSIVE escaped_transform(_, _, _, _)
\* escaped_transform(none_of("\\\""), '\\', one_of("\\\"nrt")) from position
\* start, at position i with acc transformed so far
escaped_transform(str, start, i, acc) ==
    LET c == Char(str, i)
    IN  IF c = ""
        THEN NomOk(i, acc)
        ELSE IF c = "\\"
             THEN IF Char(str, i + 1) \in {"\\", "\"", "n", "r", "t"}
                  THEN escaped_transform(str, start, i + 2, Append(acc, Char(str, i + 1)))
                  ELSE NomErr
             ELSE IF c = "\""
                  THEN IF i = start THEN NomErr ELSE NomOk(i, acc)
                  ELSE escaped_transform(str, start, i + 1, Append(acc, c))

\* the closing char('"') of delimited, after the body
closing_quote(str, body) ==
    IF body.ok /\ Char(str, body.i) = "\""
    THEN NomOk(body.i + 1, body.out)
    ELSE NomErr

\* delimited(char('"'), escaped_transform(..), char('"'))
quoted_string(str, i) ==
    IF Char(str, i) # "\""
    THEN NomErr
    ELSE closing_quote(str, escaped_transform(str, i + 1, i + 1, <<>>))

\* nom's alt of two parsers, by their results: the first that succeeds
alt(first, second) == IF first.ok THEN first ELSE second

\* alt((quoted_string, valid_identifier))
key_name(str, i) == alt(quoted_string(str, i), valid_identifier(str, i))

\* index_group reading a signed number: a '-' may stand before the digits
index_group_signed(str, i) ==
    LET from == IF Char(str, i + 1) = "-" THEN i + 2 ELSE i + 1
        stop == DigitsEnd(str, from)
    IN  IF Char(str, i) = "[" /\ stop > from /\ Char(str, stop) = "]"
        THEN NomOk(stop + 1, ParseDigits(SubSeq(str, from, stop - 1)))
        ELSE NomErr

\* delimited(char('['), map_res(digit1, parse::<usize>), char(']'))
index_group(str, i) ==
    LET stop == DigitsEnd(str, i + 1)
    IN  IF Char(str, i) = "[" /\ stop > i + 1 /\ Char(str, stop) = "]"
        THEN NomOk(stop + 1, ParseDigits(SubSeq(str, i + 1, stop - 1)))
        ELSE NomErr

RECURSIVE index_groups(_, _, _)

\* many1 after trying one more group: go on, or stop with the groups read
many1(str, i, acc, group) ==
    IF group.ok
    THEN index_groups(str, group.i, Append(acc, Index(group.out)))
    ELSE IF acc = <<>> THEN NomErr ELSE NomOk(i, acc)

\* many1 of the bracket groups: acc holds the Index tokens of the groups read
index_groups(str, i, acc) == many1(str, i, acc, index_group(str, i))

\* vec![PathToken::Key(s)]
key_token(name) == IF name.ok THEN NomOk(name.i, <<Key(name.out)>>) ELSE NomErr

key_segment(str, i) == key_token(key_name(str, i))

\* array_tokens pushing the indices before the key
array_tokens_indices_first(key_opt, indices) ==
    IF indices.ok
    THEN NomOk(indices.i,
               indices.out \o (IF key_opt.ok THEN <<Key(key_opt.out)>> ELSE <<>>))
    ELSE NomErr

\* the tokens of array_access: the key, if one was read, and the indices
array_tokens(key_opt, indices) ==
    IF indices.ok
    THEN NomOk(indices.i,
               (IF key_opt.ok THEN <<Key(key_opt.out)>> ELSE <<>>) \o indices.out)
    ELSE NomErr

\* array_access after opt(alt((quoted_string, valid_identifier)))
array_indices(str, i, key_opt) ==
    array_tokens(key_opt, index_groups(str, IF key_opt.ok THEN key_opt.i ELSE i, <<>>))

array_access(str, i) == array_indices(str, i, key_name(str, i))

\* alt((array_access, key_segment))
segment(str, i) == alt(array_access(str, i), key_segment(str, i))

RECURSIVE path_rest(_, _, _, _)

\* separated_list1 after a separator at i: the segment, or stop before the
\* separator
path_next(str, i, separator, acc, seg) ==
    IF seg.ok
    THEN path_rest(str, seg.i, separator, acc \o seg.out)
    ELSE NomOk(i, acc)

\* separated_list1 after its first element: a separator and a segment, or stop
path_rest(str, i, separator, acc) ==
    IF Char(str, i) = separator
    THEN path_next(str, i, separator, acc, segment(str, i + 1))
    ELSE NomOk(i, acc)

\* separated_list1 from its first element
path_first(str, separator, first) ==
    IF first.ok THEN path_rest(str, first.i, separator, first.out) ELSE NomErr

path(str, i, separator) == path_first(str, separator, segment(str, i))

\* Result::unwrap_or
unwrap_or(res, default) == IF res.ok THEN res.v ELSE default

\* json_value reading one JSON value from the front of the text and dropping
\* what follows it (a streaming read in place of from_str)
json_value_prefix(str, i) ==
    IF i > Len(str)
    THEN NomErr
    ELSE NomOk(Len(str) + 1, unwrap_or(JsonValue(From(str, i), 1), JStr(From(str, i))))

\* json_value trimming the text before it reads it
json_value_trimmed(str, i) ==
    IF i > Len(str)
    THEN NomErr
    ELSE NomOk(Len(str) + 1,
               unwrap_or(from_str(TrimEnd(From(str, SkipWhitespace(str, i)))),
                         JStr(TrimEnd(From(str, SkipWhitespace(str, i))))))

\* is_not("") and serde_json::from_str(s).unwrap_or(Value::String(s))
json_value(str, i) ==
    IF i > Len(str)
    THEN NomErr
    ELSE NomOk(Len(str) + 1, unwrap_or(from_str(From(str, i)), JStr(From(str, i))))

\* (input, Some(value))
some_value(tokens, value) ==
    IF value.ok
    THEN NomOk(value.i, [tokens |-> tokens.out, value |-> Some(value.out)])
    ELSE NomErr

\* assignment_value with the value clause optional: a path alone is a query
\* with no value, whatever the operation
assignment_value_optional(str, operation, tokens) ==
    IF ~tokens.ok
    THEN NomErr
    ELSE IF operation = "Remove" \/ Char(str, tokens.i) # "="
         THEN NomOk(tokens.i, [tokens |-> tokens.out, value |-> None])
         ELSE some_value(tokens,
                  json_value(str, IF Char(str, tokens.i + 1) = " "
                                  THEN tokens.i + 2 ELSE tokens.i + 1))

\* assignment after path: nothing more for Remove, else '=', an optional
\* space and the value
assignment_value(str, operation, tokens) ==
    IF ~tokens.ok
    THEN NomErr
    ELSE IF operation = "Remove"
         THEN NomOk(tokens.i, [tokens |-> tokens.out, value |-> None])
         ELSE IF Char(str, tokens.i) # "="
              THEN NomErr
              ELSE some_value(tokens,
                       json_value(str, IF Char(str, tokens.i + 1) = " "
                                       THEN tokens.i + 2 ELSE tokens.i + 1))

\* assignment without the Remove arm: every operation reads "=" and a value
assignment_value_always(str, i, separator, operation) ==
    assignment_value(str, "Auto", path(str, i, separator))

assignment(str, i, separator, operation) ==
    assignment_value(str, operation, path(str, i, separator))

\* opt(operation_prefix)
operation_prefix(str) ==
    IF Char(str, 1) \in operators
    THEN NomOk(2, from_operator(Char(str, 1)))
    ELSE NomOk(1, "Auto")

\* Ok((input, Jqesque { operation, tokens, value }))
jqesque_ok(operation, assigned) ==
    IF assigned.ok
    THEN NomOk(assigned.i, [tokens |-> assigned.out.tokens,
                            value |-> assigned.out.value,
                            operation |-> operation])
    ELSE NomErr

\* jqesque trying two alternatives in order: the operator taken off, if the
\* rest then parses to the end, else the whole input with no operator
jqesque_ordered(str, separator) ==
    LET prefixed == jqesque_ok(operation_prefix(str).out,
                               assignment(str, operation_prefix(str).i, separator,
                                          operation_prefix(str).out))
        plain == jqesque_ok("Auto", assignment(str, 1, separator, "Auto"))
    IN  IF prefixed.ok /\ prefixed.i = Len(str) + 1 THEN prefixed ELSE plain

jqesque(str, separator) ==
    jqesque_ok(operation_prefix(str).out,
               assignment(str, operation_prefix(str).i, separator,
                          operation_prefix(str).out))

-----------------------------------------------------------------------------
(* Jqesque::apply_to                                                       *)

\* The outcome of one apply_to: Ok(op) or Err(err), the document as the call
\* leaves it, and (ghost) the document after each concrete operation tried.
Outcome(ok, op, err, expected, actual, doc, trials) ==
    [ok |-> ok, op |-> op, err |-> err, expected |-> expected, actual |-> actual,
     json |-> doc, trace |-> trials]

Trial(op, ok, doc) == <<[op |-> op, ok |-> ok, json |-> doc]>>

Ok(op, doc) == Outcome(TRUE, op, "", JNull, JNull, doc, Trial(op, TRUE, doc))

Err(op, err, doc) == Outcome(FALSE, "", err, JNull, JNull, doc, Trial(op, FALSE, doc))

WithOperation(self, op) == [self EXCEPT !.operation = op]

\* Display for Operation: the lower-case name
fmt(op) ==
    CASE op = "Insert" -> <<"i", "n", "s", "e", "r", "t">>
      [] op = "Merge" -> <<"m", "e", "r", "g", "e">>
      [] op = "Add" -> <<"a", "d", "d">>
      [] op = "Remove" -> <<"r", "e", "m", "o", "v", "e">>
      [] op = "Replace" -> <<"r", "e", "p", "l", "a", "c", "e">>
      [] op = "Test" -> <<"t", "e", "s", "t">>
      [] op = "Auto" -> <<"a", "u", "t", "o">>

\* the member names of a rendered patch operation
OpField == <<"o", "p">>

PathField == <<"p", "a", "t", "h">>

ValueField == <<"v", "a", "l", "u", "e">>

\* as_json, the arm  Add | Replace | Remove | Test: a list of one patch operation
as_json_patch(self) ==
    LET pointer_buf == tokens_to_pointer(self.tokens)
        op_json == IF self.operation = "Remove"
                   THEN JObj({<<OpField, JStr(fmt(self.operation))>>,
                              <<PathField, JStr(pointer_buf)>>})
                   ELSE JObj({<<OpField, JStr(fmt(self.operation))>>,
                              <<PathField, JStr(pointer_buf)>>,
                              <<ValueField, IF self.value.some THEN self.value.v
                                            ELSE JNull>>})
    IN  JArr(<<op_json>>)

\* as_json_insert rendering the value alone, without the path around it
as_json_insert_bare(self) == IF self.value.some THEN self.value.v ELSE JNull

\* as_json, the arm  Merge | Insert: the value at its path in a null root
as_json_insert(self) == insert_value(JNull, self.tokens, self.value)

RECURSIVE as_json(_)
\* as_json_auto pushing every operation of the rendering of each trial, so
\* that the list holds the three patch operations themselves
as_json_auto_flat(self) ==
    JArr(as_json(WithOperation(self, "Replace")).a
         \o as_json(WithOperation(self, "Add")).a
         \o <<as_json(WithOperation(self, "Insert"))>>)

\* as_json, the arm  Auto: the renderings as Replace, Add and Insert, in a list
as_json_auto(self) ==
    JArr(<<as_json(WithOperation(self, "Replace")),
           as_json(WithOperation(self, "Add")),
           as_json(WithOperation(self, "Insert"))>>)

as_json(self) ==
    CASE self.operation = "Auto" -> as_json_auto(self)
      [] self.operation \in {"Add", "Replace", "Remove", "Test"} -> as_json_patch(self)
      [] self.operation \in {"Merge", "Insert"} -> as_json_insert(self)

\* apply_patch creating the path before it patches, and leaving it on failure
apply_patch_dirty(self, doc) ==
    IF self.value.some
    THEN LET pointer_buf == tokens_to_pointer(self.tokens)
             patched == IF self.operation = "Add"
                        THEN PatchAdd(doc, pointer_buf, self.value.v)
                        ELSE PatchReplace(doc, pointer_buf, self.value.v)
         IN  IF patched.ok THEN Ok(self.operation, patched.json)
             ELSE Err(self.operation, "PatchError",
                      insert_value(doc, self.tokens, None))
    ELSE Err(self.operation, "MissingValueError", doc)

\* the arm  Operation::Add | Operation::Replace
apply_patch(self, doc) ==
    IF self.value.some
    THEN LET pointer_buf == tokens_to_pointer(self.tokens)
             patched == IF self.operation = "Add"
                        THEN PatchAdd(doc, pointer_buf, self.value.v)
                        ELSE PatchReplace(doc, pointer_buf, self.value.v)
         IN  IF patched.ok THEN Ok(self.operation, patched.json)
             ELSE Err(self.operation, "PatchError", patched.json)
    ELSE Err(self.operation, "MissingValueError", doc)

\* the arm  Operation::Remove
apply_remove(self, doc) ==
    LET patched == PatchRemove(doc, tokens_to_pointer(self.tokens))
    IN  IF patched.ok THEN Ok("Remove", patched.json)
        ELSE Err("Remove", "PatchError", patched.json)

\* apply_test reporting the document's value as expected and the query's as actual
apply_test_exchanged(self, doc) ==
    IF self.value.some
    THEN LET found == Resolve(doc, PointerTokens(tokens_to_pointer(self.tokens)))
         IN  IF found.ok
             THEN IF found.v = self.value.v
                  THEN Ok("Test", doc)
                  ELSE Outcome(FALSE, "", "TestFailedError", found.v, self.value.v,
                               doc, Trial("Test", FALSE, doc))
             ELSE Err("Test", "InvalidPathError", doc)
    ELSE Err("Test", "MissingValueError", doc)

\* the arm  Operation::Test
apply_test(self, doc) ==
    IF self.value.some
    THEN LET found == Resolve(doc, PointerTokens(tokens_to_pointer(self.tokens)))
         IN  IF found.ok
             THEN IF found.v = self.value.v
                  THEN Ok("Test", doc)
                  ELSE Outcome(FALSE, "", "TestFailedError", self.value.v, found.v,
                               doc, Trial("Test", FALSE, doc))
             ELSE Err("Test", "InvalidPathError", doc)
    ELSE Err("Test", "MissingValueError", doc)

\* the arm  Operation::Merge
apply_merge(self, doc) ==
    LET temp_value == insert_value(JNull, self.tokens, self.value)
    IN  Ok("Merge", merge_json(doc, temp_value))

\* the arm  Operation::Insert
apply_insert(self, doc) == Ok("Insert", insert_value(doc, self.tokens, self.value))

RECURSIVE apply_to(_, _)
\* apply_auto trying Add before Replace
apply_auto_add_first(self, doc) ==
    LET added == apply_to(WithOperation(self, "Add"), doc)
    IN  IF added.ok
        THEN [added EXCEPT !.op = "Add"]
        ELSE LET replaced == apply_to(WithOperation(self, "Replace"), added.json)
             IN  IF replaced.ok
                 THEN [replaced EXCEPT !.op = "Replace", !.trace = added.trace \o @]
                 ELSE LET inserted == apply_to(WithOperation(self, "Insert"),
                                               replaced.json)
                      IN  [inserted EXCEPT
                              !.trace = added.trace \o replaced.trace \o @]

\* apply_auto without the fallback to Insert: the error of the Add trial is returned
apply_auto_no_fallback(self, doc) ==
    LET replaced == apply_to(WithOperation(self, "Replace"), doc)
    IN  IF replaced.ok
        THEN [replaced EXCEPT !.op = "Replace"]
        ELSE LET added == apply_to(WithOperation(self, "Add"), replaced.json)
             IN  [added EXCEPT !.trace = replaced.trace \o @]

\* apply_auto without the Add trial: Replace, then Insert
apply_auto_skip_add(self, doc) ==
    LET replaced == apply_to(WithOperation(self, "Replace"), doc)
    IN  IF replaced.ok
        THEN [replaced EXCEPT !.op = "Replace"]
        ELSE LET inserted == apply_to(WithOperation(self, "Insert"), replaced.json)
             IN  [inserted EXCEPT !.trace = replaced.trace \o @]

\* the arm  Operation::Auto
apply_auto(self, doc) ==
    LET replaced == apply_to(WithOperation(self, "Replace"), doc)
    IN  IF replaced.ok
        THEN [replaced EXCEPT !.op = "Replace"]
        ELSE LET added == apply_to(WithOperation(self, "Add"), replaced.json)
             IN  IF added.ok
                 THEN [added EXCEPT !.op = "Add", !.trace = replaced.trace \o @]
                 ELSE LET inserted == apply_to(WithOperation(self, "Insert"), added.json)
                      IN  [inserted EXCEPT
                              !.trace = replaced.trace \o added.trace \o @]

apply_to(self, doc) ==
    CASE self.operation = "Auto" -> apply_auto(self, doc)
      [] self.operation \in {"Add", "Replace"} -> apply_patch(self, doc)
      [] self.operation = "Remove" -> apply_remove(self, doc)
      [] self.operation = "Test" -> apply_test(self, doc)
      [] self.operation = "Merge" -> apply_merge(self, doc)
      [] self.operation = "Insert" -> apply_insert(self, doc)

-----------------------------------------------------------------------------
(* The documents and queries the model draws from.                         *)

KA == <<"a">>

KB == <<"b">>

\* a key holding both characters RFC 6901 escapes
KSlashTilde == <<"/", "~">>

N1 == JNum(<<"1">>)

N2 == JNum(<<"2">>)

\* the key RFC 6902 reads as the end of an array (+array/-=99)
KDash == <<"-">>

\* a key of digits, which the pointer renders like an index (+array/1=42)
KOne == <<"1">>

KeyNames == {KA, KB, KSlashTilde, KDash, KOne}

Tokens == {Key(name) : name \in KeyNames} \cup {Index(n) : n \in 0..MaxIndex}

Paths == UNION {[1..n -> Tokens] : n \in 0..MaxPathLen}

Values == {None, Some(N1)}

Queries == [tokens : Paths, value : Values, operation : Operations]

Leaves == {JNull, N2}

FlatArrays == UNION {{JArr(elems) : elems \in [1..n -> Leaves]} : n \in 0..(MaxIndex + 1)}

FlatObjects ==
    UNION {{JObj({<<name, f[name]>> : name \in names}) : f \in [names -> Leaves]} :
              names \in SUBSET {KA, KB}}

\* nested documents, after the fixtures of tests/jqesque.rs
NestedDocs ==
    { JObj({<<KA, JObj({<<KA, N2>>, <<KB, N2>>})>>, <<KB, JArr(<<N2, N1>>)>>}),
      JArr(<<JObj({<<KA, N2>>}), JArr(<<N2>>)>>),
      JObj({<<KA, JArr(<<JObj({<<KB, N2>>})>>)>>, <<KSlashTilde, N2>>}),
      JObj({<<KSlashTilde, N2>>, <<escape_json_pointer_segment(KSlashTilde), N2>>}),
      JObj({<<KSlashTilde, JArr(<<N2, N1>>)>>, <<KB, N1>>}) }

InitDocs == Leaves \cup FlatArrays \cup FlatObjects \cup NestedDocs

NoQuery == [tokens |-> <<>>, value |-> None, operation |-> ""]

NoResult == [ok |-> FALSE, op |-> "", err |-> "", expected |-> JNull, actual |-> JNull]

Returned(outcome) ==
    [ok |-> outcome.ok, op |-> outcome.op, err |-> outcome.err,
     expected |-> outcome.expected, actual |-> outcome.actual]

NoParse == [ok |-> FALSE, q |-> NoQuery, err |-> ""]

\* the match on the result without all_consuming: text may be left over
all_consuming_partly(str, res) ==
    IF res.ok
    THEN [ok |-> TRUE, q |-> res.out, err |-> ""]
    ELSE [ok |-> FALSE, q |-> NoQuery, err |-> "NomError"]

\* all_consuming and the match on its result: the whole input, or NomError
all_consuming(str, res) ==
    IF res.ok /\ res.i = Len(str) + 1
    THEN [ok |-> TRUE, q |-> res.out, err |-> ""]
    ELSE [ok |-> FALSE, q |-> NoQuery, err |-> "NomError"]

parse_input(str, separator) == all_consuming(str, jqesque(str, separator))

-----------------------------------------------------------------------------
(* Spec: one caller holding a document applies a query to it, and then     *)
(* the same query once more; or it renders a query with as_json.           *)

Init ==
    /\ pc = "start"
    /\ json \in InitDocs
    /\ base = json
    /\ prev = JNull
    /\ query = NoQuery
    /\ result = NoResult
    /\ trace = <<>>
    /\ other = JNull
    /\ input = <<>>
    /\ parsed = NoParse
    /\ rendered = JNull

\* query.apply_to(&mut json)
Call(q) ==
    LET outcome == apply_to(q, json)
    IN  /\ prev' = json
        /\ query' = q
        /\ json' = outcome.json
        /\ result' = Returned(outcome)
        /\ trace' = outcome.trace
        /\ UNCHANGED <<base, other, input, parsed, rendered>>

ApplyTo ==
    /\ pc = "start"
    /\ \E q \in Queries : Call(q)
    /\ pc' = "applied"

ApplyAgain ==
    /\ pc = "applied"
    /\ Call(query)
    /\ pc' = "reapplied"

\* query.as_json()
AsJson ==
    /\ pc = "start"
    /\ \E q \in Queries :
           /\ query' = q
           /\ rendered' = as_json(q)
    /\ pc' = "rendered"
    /\ UNCHANGED <<base, json, prev, result, trace, other, input, parsed>>

\* query.as_json() of the query that was applied
AsJsonApplied ==
    /\ pc = "applied"
    /\ rendered' = as_json(query)
    /\ pc' = "compared"
    /\ UNCHANGED <<base, json, prev, query, result, trace, other, input, parsed>>

Next == ApplyTo \/ ApplyAgain \/ AsJson \/ AsJsonApplied

Spec == Init /\ [][Next]_vars

-----------------------------------------------------------------------------
(* MergeSpec: merge_json applied to two documents.                         *)

MergeDocs ==
    InitDocs \cup
    { JObj({<<KA, JObj({<<KA, N1>>})>>}),
      JObj({<<KA, JArr(<<N1>>)>>}),
      JArr(<<N1>>),
      JArr(<<N1, N1, N1>>),
      JArr(<<JArr(<<N1>>)>>),
      JArr(<<JObj({<<KB, N1>>})>>) }

MergeInit ==
    /\ pc = "start"
    /\ json \in MergeDocs
    /\ other \in MergeDocs
    /\ base = json
    /\ prev = JNull
    /\ query = NoQuery
    /\ result = NoResult
    /\ trace = <<>>
    /\ input = <<>>
    /\ parsed = NoParse
    /\ rendered = JNull

\* merge_json(&mut json, &mut other)
MergeJson ==
    /\ pc = "start"
    /\ prev' = json
    /\ json' = merge_json(json, other)
    /\ pc' = "merged"
    /\ UNCHANGED <<base, query, result, trace, other, input, parsed, rendered>>

MergeNext == MergeJson

MergeSpec == MergeInit /\ [][MergeNext]_vars

-----------------------------------------------------------------------------
(* ParseSpec: a caller parses an input text with parse_input and, when a   *)
(* query comes back, applies it to a document.                             *)

InputChars == {"-", "a", "[", "]", "0", "=", ".", "\""}

ShortInputs == UNION {[1..n -> InputChars] : n \in 0..MaxInputLen}

\* arr[-1]=value, of test_parse_input_err
ArrMinusOne ==
    <<"a", "r", "r", "[", "-", "1", "]", "=", "v", "a", "l", "u", "e">>

\* arr[invalid]=value, of test_parse_input_err
ArrInvalid ==
    <<"a", "r", "r", "[", "i", "n", "v", "a", "l", "i", "d", "]", "=",
      "v", "a", "l", "u", "e">>

\* value clauses after test_parse_input_insert_ok: JSON literals, plain text
\* and JSON followed by more text
ValueInputs ==
      \* a=hello
    { <<"a", "=", "h", "e", "l", "l", "o">>,
      \* a=true
      <<"a", "=", "t", "r", "u", "e">>,
      \* a=42
      <<"a", "=", "4", "2">>,
      \* a=3.14
      <<"a", "=", "3", ".", "1", "4">>,
      \* a=null
      <<"a", "=", "n", "u", "l", "l">>,
      \* a={"a":1}
      <<"a", "=", "{", "\"", "a", "\"", ":", "1", "}">>,
      \* a=[1,2,3]
      <<"a", "=", "[", "1", ",", "2", ",", "3", "]">>,
      \* a="hi"
      <<"a", "=", "\"", "h", "i", "\"">>,
      \* a= 1
      <<"a", "=", " ", "1">>,
      \* a=  1
      <<"a", "=", " ", " ", "1">>,
      \* a=1 x
      <<"a", "=", "1", " ", "x">>,
      \* a={"a":1}x
      <<"a", "=", "{", "\"", "a", "\"", ":", "1", "}", "x">>,
      \* a=truex
      <<"a", "=", "t", "r", "u", "e", "x">> }

\* inputs of test_invalid_path_errors and test_parse_input_err, and a Remove
\* followed by more text
MalformedInputs ==
      \* +key..subkey=value
    { <<"+", "k", "e", "y", ".", ".", "s", "u", "b", "k", "e", "y", "=", "v",
         "a", "l", "u", "e">>,
      \* +key\subkey=value
      <<"+", "k", "e", "y", "\\", "s", "u", "b", "k", "e", "y", "=", "v",
         "a", "l", "u", "e">>,
      \* key
      <<"k", "e", "y">>,
      \* key=
      <<"k", "e", "y", "=">>,
      \* =value
      <<"=", "v", "a", "l", "u", "e">>,
      \* !key=value
      <<"!", "k", "e", "y", "=", "v", "a", "l", "u", "e">>,
      \* -a=1
      <<"-", "a", "=", "1">>,
      \* a= (with one space)
      <<"a", "=", " ">>,
      \* -a b
      <<"-", "a", " ", "b">> }

\* the operator characters outside InputChars before each shorter input
PrefixedInputs ==
    { <<c>> \o str : c \in operators \ InputChars,
                     str \in UNION {[1..n -> InputChars] : n \in 0..(MaxInputLen - 1)} }

\* inputs with spaces in every position, and one with a tab after the '='
SpacedInputs ==
    UNION {[1..n -> {"a", " ", "=", "0"}] : n \in 0..MaxInputLen}
        \cup {<<"a", "=", "\t", "a">>}

Inputs ==
    ShortInputs \cup PrefixedInputs \cup ValueInputs \cup MalformedInputs
        \cup SpacedInputs \cup {ArrMinusOne, ArrInvalid}

ParseInit ==
    /\ pc = "start"
    /\ input \in Inputs
    /\ json = JNull
    /\ base = JNull
    /\ prev = JNull
    /\ query = NoQuery
    /\ result = NoResult
    /\ trace = <<>>
    /\ other = JNull
    /\ parsed = NoParse
    /\ rendered = JNull

\* parse_input(input, Separator::Dot)
ParseInput ==
    /\ pc = "start"
    /\ parsed' = parse_input(input, Dot)
    /\ pc' = IF parsed'.ok THEN "parsed" ELSE "rejected"
    /\ UNCHANGED <<base, json, prev, query, result, trace, other, input, rendered>>

\* the Ok arm of the caller: jqesque.apply_to(&mut json) on a document
ApplyParsed ==
    /\ pc = "parsed"
    /\ \E doc \in InitDocs :
           LET outcome == apply_to(parsed.q, doc)
           IN  /\ prev' = doc
               /\ query' = parsed.q
               /\ json' = outcome.json
               /\ result' = Returned(outcome)
               /\ trace' = outcome.trace
    /\ pc' = "applied"
    /\ UNCHANGED <<base, other, input, parsed, rendered>>

ParseNext == ParseInput \/ ApplyParsed

ParseSpec == ParseInit /\ [][ParseNext]_vars

-----------------------------------------------------------------------------
(* Claims about apply_to (Spec)                                            *)

Applied == pc \in {"applied", "reapplied"}

PointerOf(q) == PointerTokens(tokens_to_pointer(q.tokens))

PointerResolves(q, doc) == Resolve(doc, PointerOf(q)).ok

\* RFC 6902 add can succeed: the parent container exists and, for an array,
\* the last token is "-" or an index in 0..=len
AddCanSucceed(q, doc) ==
    LET toks == PointerOf(q)
    IN  \/ toks = <<>>
        \/ /\ toks # <<>>
           /\ LET parent == Resolve(doc, Front(toks))
                  ix == to_index(Decode(Last(toks)))
              IN  /\ parent.ok
                  /\ \/ is_object(parent.v)
                     \/ /\ is_array(parent.v)
                        /\ \/ ix.kind = "Next"
                           \/ ix.kind = "Num" /\ ix.n <= Len(parent.v.a)

TriedOps == [i \in 1..Len(trace) |-> trace[i].op]

\* the document a concrete operation makes of doc
ConcreteResult(op, q, doc) ==
    CASE op = "Replace" -> PatchReplace(doc, tokens_to_pointer(q.tokens), q.value.v).json
      [] op = "Add" -> PatchAdd(doc, tokens_to_pointer(q.tokens), q.value.v).json
      [] op = "Insert" -> insert_value(doc, q.tokens, q.value)
      [] OTHER -> doc

AutoOrder ==
    /\ result.ok
    /\ result.op \in {"Replace", "Add", "Insert"}
    /\ PointerResolves(query, prev) => result.op = "Replace"
    /\ result.op = "Add" <=> (~PointerResolves(query, prev) /\ AddCanSucceed(query, prev))
    /\ result.op = "Insert" <=>
           (~PointerResolves(query, prev) /\ ~AddCanSucceed(query, prev))
    /\ result.op = "Replace" => TriedOps = <<"Replace">>
    /\ result.op = "Add" => TriedOps = <<"Replace", "Add">>
    /\ result.op = "Insert" => TriedOps = <<"Replace", "Add", "Insert">>
    /\ json = ConcreteResult(result.op, query, prev)

\* C1 as stated: an Auto query returns Replace whenever its pointer resolves,
\* Add only when Replace failed and the RFC 6902 add succeeds, Insert only
\* when both failed; the trials run in the order Replace, Add, Insert.
C1_AutoOrderAnyQuery == (Applied /\ query.operation = "Auto") => AutoOrder

\* C1 (amended): the above for an Auto query that carries a value; an Auto
\* query with no value fails the Replace and the Add trial (no value to
\* patch with) and returns Insert, also where its pointer resolves.
C1_AutoOrder ==
    (Applied /\ query.operation = "Auto") =>
        IF query.value.some
        THEN AutoOrder
        ELSE /\ result.ok
             /\ result.op = "Insert"
             /\ TriedOps = <<"Replace", "Add", "Insert">>
             /\ json = insert_value(prev, query.tokens, None)

C1_Witness ==
    /\ pc = "applied"
    /\ query.operation = "Auto"
    /\ query.value.some
    /\ result.op = "Add"
    /\ TriedOps = <<"Replace", "Add">>
    /\ json # prev

\* C2: apply_to of an Insert, Merge or Auto query returns Ok for every
\* document, and the operation an Auto query returns is Replace, Add or Insert.
C2_NeverFails ==
    (Applied /\ query.operation \in {"Insert", "Merge", "Auto"}) =>
        /\ result.ok
        /\ result.err = ""
        /\ query.operation = "Auto" => result.op \in {"Replace", "Add", "Insert"}
        /\ query.operation # "Auto" => result.op = query.operation

C2_Witness ==
    /\ pc = "applied"
    /\ query.operation = "Auto"
    /\ ~PointerResolves(query, prev)
    /\ ~AddCanSucceed(query, prev)
    /\ result.ok
    /\ result.op = "Insert"

\* C3: an apply_to that returns an error leaves the document as it was; in
\* Auto every failed trial leaves the document as it was, so the final
\* document is the result of the one successful operation on the original.
C3_NoPartialMutation ==
    Applied =>
        /\ ~result.ok => (json = prev /\ query.operation \in {"Add", "Replace", "Remove", "Test"})
        /\ \A i \in 1..Len(trace) : ~trace[i].ok => trace[i].json = prev
        /\ query.operation = "Auto" => json = ConcreteResult(result.op, query, prev)

C3_Witness ==
    /\ pc = "applied"
    /\ query.operation = "Auto"
    /\ Len(trace) = 3
    /\ ~trace[1].ok
    /\ ~trace[2].ok
    /\ result.op = "Insert"
    /\ json # prev

\* C4: after Insert of a scalar at a non-empty path into a null root,
\* resolving the pointer tokens_to_pointer renders from the path yields the
\* scalar.
C4_InsertRoundTrip ==
    (/\ pc = "applied"
     /\ query.operation = "Insert"
     /\ prev = JNull
     /\ query.tokens # <<>>
     /\ query.value.some) =>
        Resolve(json, PointerOf(query)) = [ok |-> TRUE, v |-> query.value.v]

\* C5: applying the same Insert a second time leaves the document as the
\* first application made it.
C5_InsertIdempotent ==
    (pc = "reapplied" /\ query.operation = "Insert") => json = prev

C5_Witness ==
    /\ pc = "reapplied"
    /\ query.operation = "Insert"
    /\ query.tokens # <<>>
    /\ prev # base
    /\ json = prev

HasSpecial(name) == \E i \in 1..Len(name) : name[i] \in {"/", "~"}

\* C8: a Key holding '/' or '~' renders as a pointer segment with each '~'
\* as "~0" and each '/' as "~1", escaped once, and the pointer resolves to
\* the member of that name.
C8_PointerEscaping ==
    (/\ Applied
     /\ Len(query.tokens) = 1
     /\ query.tokens[1].k = "Key"
     /\ HasSpecial(query.tokens[1].name)) =>
        LET name == query.tokens[1].name
        IN  /\ tokens_to_pointer(query.tokens)
                 = <<"/">> \o ReplaceChar(ReplaceChar(name, "~", <<"~", "0">>),
                                          "/", <<"~", "1">>)
            /\ (is_object(prev) /\ HasKey(prev, name)) =>
                   Resolve(prev, PointerOf(query)) = [ok |-> TRUE, v |-> Get(prev, name)]

-----------------------------------------------------------------------------
(* Claims about merge_json (MergeSpec)                                     *)

Names(obj) == {p[1] : p \in obj.o}

Max(m, n) == IF m >= n THEN m ELSE n

Min(m, n) == IF m <= n THEN m ELSE n

\* m is what merging b into a must give: objects member by member, arrays
\* element by element, anything else b
RECURSIVE MergedAs(_, _, _)
MergedAs(a, b, m) ==
    IF is_object(a) /\ is_object(b)
    THEN /\ is_object(m)
         /\ Names(m) = Names(a) \cup Names(b)
         /\ \A name \in Names(a) \ Names(b) : Get(m, name) = Get(a, name)
         /\ \A name \in Names(b) :
                MergedAs(IF HasKey(a, name) THEN Get(a, name) ELSE JNull,
                         Get(b, name), Get(m, name))
    ELSE IF is_array(a) /\ is_array(b)
         THEN /\ is_array(m)
              /\ Len(m.a) = Max(Len(a.a), Len(b.a))
              /\ \A i \in 1..Min(Len(a.a), Len(b.a)) : MergedAs(a.a[i], b.a[i], m.a[i])
              /\ \A i \in (Len(a.a) + 1)..Len(b.a) : m.a[i] = b.a[i]
              /\ \A i \in (Len(b.a) + 1)..Len(a.a) : m.a[i] = a.a[i]
         ELSE m = b

\* C6: merging an object into an object keeps every member of a that b does
\* not name, at every level where both sides are objects, and every member b
\* names holds the recursive merge of the two sides.
C6_MergeKeepsSiblings ==
    (pc = "merged" /\ is_object(prev) /\ is_object(other)) =>
        /\ is_object(json)
        /\ Names(json) = Names(prev) \cup Names(other)
        /\ \A name \in Names(prev) \ Names(other) : Get(json, name) = Get(prev, name)
        /\ \A name \in Names(other) :
               MergedAs(IF HasKey(prev, name) THEN Get(prev, name) ELSE JNull,
                        Get(other, name), Get(json, name))

\* {"a":{"a":2,"b":2}, ...} merged with {"a":{"a":1}}: the nested b is kept
C6_Witness ==
    /\ pc = "merged"
    /\ is_object(prev)
    /\ other = JObj({<<KA, JObj({<<KA, N1>>})>>})
    /\ HasKey(prev, KA)
    /\ is_object(Get(prev, KA))
    /\ HasKey(Get(prev, KA), KB)
    /\ Get(json, KA) = JObj({<<KA, N1>>, <<KB, Get(Get(prev, KA), KB)>>})
    /\ json # prev

\* C7: merging an array into an array gives an array of length
\* max(len(a), len(b)): the overlapping prefix merged element by element,
\* the further elements of b appended in order, the further elements of a kept.
C7_ArrayMergeExtends ==
    (pc = "merged" /\ is_array(prev) /\ is_array(other)) =>
        /\ is_array(json)
        /\ Len(json.a) = Max(Len(prev.a), Len(other.a))
        /\ \A i \in 1..Min(Len(prev.a), Len(other.a)) :
               MergedAs(prev.a[i], other.a[i], json.a[i])
        /\ \A i \in (Len(prev.a) + 1)..Len(other.a) : json.a[i] = other.a[i]
        /\ \A i \in (Len(other.a) + 1)..Len(prev.a) : json.a[i] = prev.a[i]

\* [1] merged into a longer array: only the first element is overwritten
C7_Witness ==
    /\ pc = "merged"
    /\ is_array(prev)
    /\ other = JArr(<<N1>>)
    /\ Len(prev.a) > 1
    /\ prev.a[1] # N1
    /\ json = JArr([prev.a EXCEPT ![1] = N1])

-----------------------------------------------------------------------------
(* Claims about parse_input and what follows it (ParseSpec)                *)

\* where the path of an input starts: after the operator character, if any
PathStart(str) == IF Char(str, 1) \in operators THEN 2 ELSE 1

\* position i lies inside a quoted key
InQuotes(str, i) ==
    Cardinality({j \in PathStart(str)..(i - 1) : str[j] = "\""}) % 2 = 1

\* where the path ends: at the first '=' outside quotes, or with the input
PathEnd(str) ==
    LET stops == {j \in PathStart(str)..Len(str) : str[j] = "=" /\ ~InQuotes(str, j)}
    IN  IF stops = {} THEN Len(str) + 1
        ELSE CHOOSE j \in stops : \A k \in stops : j <= k

\* the path holds a bracket pair whose content is not a run of one or more
\* decimal digits
BadIndex(str) ==
    \E i \in PathStart(str)..(PathEnd(str) - 1) :
        /\ str[i] = "["
        /\ ~InQuotes(str, i)
        /\ \E j \in (i + 1)..Len(str) :
               /\ str[j] = "]"
               /\ \A k \in (i + 1)..(j - 1) : str[k] # "]"
               /\ ~(j > i + 1 /\ \A k \in (i + 1)..(j - 1) : IsDigit(str[k]))

\* after is before without the member or element the last pointer token names
RemovedFrom(before, after, last) ==
    IF is_object(before)
    THEN /\ is_object(after)
         /\ after.o = {m \in before.o : m[1] # last}
         /\ after.o # before.o
    ELSE /\ is_array(before)
         /\ is_array(after)
         /\ to_index(last).kind = "Num"
         /\ Len(after.a) = Len(before.a) - 1
         /\ \A k \in 1..Len(after.a) :
                after.a[k] = IF k <= to_index(last).n THEN before.a[k]
                             ELSE before.a[k + 1]

\* C9: '-' followed by a path that takes up the rest of the input parses to
\* a Remove query with no value and that path; applied to a document where
\* its pointer resolves, it returns Remove and the document is the one before
\* without the addressed member or element (later elements one place down,
\* everything else as it was); where the pointer does not resolve it returns
\* PatchError and the document is as it was.
C9_RemoveNoValue ==
    /\ (/\ pc # "start"
        /\ Char(input, 1) = "-"
        /\ path(From(input, 2), 1, Dot).ok
        /\ path(From(input, 2), 1, Dot).i = Len(input)) =>
           /\ parsed.ok
           /\ parsed.q = [tokens |-> path(From(input, 2), 1, Dot).out,
                          value |-> None, operation |-> "Remove"]
    /\ (pc = "applied" /\ query.operation = "Remove") =>
           LET toks == PointerOf(query)
           IN  IF Resolve(prev, toks).ok
               THEN /\ result.ok
                    /\ result.op = "Remove"
                    /\ Resolve(json, Front(toks)).ok
                    /\ RemovedFrom(Resolve(prev, Front(toks)).v,
                                   Resolve(json, Front(toks)).v, Decode(Last(toks)))
                    /\ json = SetAt(prev, Front(toks), Resolve(json, Front(toks)).v)
               ELSE /\ ~result.ok
                    /\ result.err = "PatchError"
                    /\ json = prev

\* -[0] on [null, 2]: the 2 moves down to the first place
C9_Witness ==
    /\ pc = "applied"
    /\ input = <<"-", "[", "0", "]">>
    /\ parsed.q = [tokens |-> <<Index(0)>>, value |-> None, operation |-> "Remove"]
    /\ prev = JArr(<<JNull, N2>>)
    /\ result.ok
    /\ result.op = "Remove"
    /\ json = JArr(<<N2>>)

\* C10: an input whose path holds a bracket pair with anything but a run of
\* one or more decimal digits between the brackets is rejected with NomError:
\* no query comes back, nothing is applied and the document stays as it was.
C10_BadIndexRejected ==
    (pc # "start" /\ BadIndex(input)) =>
        /\ ~parsed.ok
        /\ parsed.err = "NomError"
        /\ parsed.q = NoQuery
        /\ pc = "rejected"
        /\ query = NoQuery
        /\ json = base

C10_Witness ==
    /\ pc = "rejected"
    /\ input = ArrMinusOne
    /\ BadIndex(input)
    /\ parsed.err = "NomError"

\* where the value text starts: after the '=' that ends the path and one
\* optional space
ValueStart(str) ==
    IF Char(str, PathEnd(str) + 1) = " " THEN PathEnd(str) + 2 ELSE PathEnd(str) + 1

\* C11: a parsed query of any operation but Remove carries a value, and with
\* R the whole text after '=' and one optional space: the value is the JSON
\* value R reads as when all of R is one JSON text, and otherwise the string
\* R itself; it is never the JSON value of a part of R.
C11_ValueFallback ==
    (pc # "start" /\ parsed.ok /\ parsed.q.operation # "Remove") =>
        LET R == From(input, ValueStart(input))
        IN  /\ R # <<>>
            /\ parsed.q.value.some
            /\ from_str(R).ok => parsed.q.value.v = from_str(R).v
            /\ ~from_str(R).ok => parsed.q.value.v = JStr(R)

\* a={"a":1}x: an object followed by more text is the string {"a":1}x
C11_Witness ==
    /\ pc = "parsed"
    /\ input = <<"a", "=", "{", "\"", "a", "\"", ":", "1", "}", "x">>
    /\ JsonValue(From(input, 3), 1).ok
    /\ ~from_str(From(input, 3)).ok
    /\ parsed.q.value = Some(JStr(From(input, 3)))

NoOperatorQuery(str) ==
    /\ assignment(str, 1, Dot, "Auto").ok
    /\ assignment(str, 1, Dot, "Auto").i = Len(str) + 1

\* the input is '-' and a path that takes up the rest of it
RemoveQuery(str) ==
    /\ Char(str, 1) = "-"
    /\ assignment(str, 2, Dot, "Remove").ok
    /\ assignment(str, 2, Dot, "Remove").i = Len(str) + 1

\* C13 as stated: an input that starts with '-', is no Remove query with the
\* '-' taken off, and is a query with no operator as a whole, parses to an
\* Auto query whose first key starts with the '-'.
C13_DashKeptAsKey ==
    (/\ pc # "start"
     /\ Char(input, 1) = "-"
     /\ ~RemoveQuery(input)
     /\ NoOperatorQuery(input)) =>
        /\ parsed.ok
        /\ parsed.q.operation = "Auto"
        /\ parsed.q.tokens[1].k = "Key"
        /\ parsed.q.tokens[1].name[1] = "-"

\* C13 (amended): the parser has one alternative only: a leading '-' is
\* always taken as the Remove operator, so an input that starts with '-'
\* parses to a Remove query with no value or not at all, and one that is a
\* query with no operator as a whole (-a=1) is rejected with NomError.
C13_DashIsRemove ==
    (pc # "start" /\ Char(input, 1) = "-") =>
        /\ parsed.ok => (parsed.q.operation = "Remove" /\ parsed.q.value = None)
        /\ parsed.ok <=> RemoveQuery(input)
        /\ NoOperatorQuery(input) =>
               (~parsed.ok /\ parsed.err = "NomError" /\ pc = "rejected")

\* -a=1 is rejected, though a=1 and "-a"=1 are queries
C13_Witness ==
    /\ pc = "rejected"
    /\ input = <<"-", "a", "=", "1">>
    /\ NoOperatorQuery(input)
    /\ ~RemoveQuery(input)
    /\ parsed.err = "NomError"

\* C14: an input parses exactly when the operator character (if any), the
\* path after it and the value clause make up all of it: for Remove the path
\* ends the input, for every other operation the path is followed by '=',
\* one optional space and at least one character of value.  Text after a
\* Remove path, a path not followed by '=' (key..subkey, key\subkey, key)
\* or no path at all are rejected with NomError.
C14_WholeInput ==
    pc # "start" =>
        LET tokens == path(input, PathStart(input), Dot)
            remove == Char(input, 1) = "-"
            value == IF Char(input, tokens.i + 1) = " " THEN tokens.i + 2
                     ELSE tokens.i + 1
        IN  /\ parsed.ok <=>
                   /\ tokens.ok
                   /\ remove => tokens.i = Len(input) + 1
                   /\ ~remove => (Char(input, tokens.i) = "=" /\ value <= Len(input))
            /\ ~parsed.ok => (parsed.err = "NomError" /\ pc = "rejected")
            /\ (tokens.ok /\ remove /\ tokens.i <= Len(input)) => pc = "rejected"
            /\ (tokens.ok /\ ~remove /\ Char(input, tokens.i) # "=") => pc = "rejected"

\* +key..subkey=value: the path ends before the two dots, which are not '='
C14_Witness ==
    /\ pc = "rejected"
    /\ input = <<"+", "k", "e", "y", ".", ".", "s", "u", "b", "k", "e", "y", "=", "v",
                 "a", "l", "u", "e">>
    /\ path(input, 2, Dot) = NomOk(5, <<Key(<<"k", "e", "y">>)>>)
    /\ parsed.err = "NomError"

-----------------------------------------------------------------------------
(* Claims about the concrete operations of apply_to (Spec)                 *)

\* C15: a Test query that carries a value returns Ok(Test) when its pointer
\* resolves to a value equal to the query's, InvalidPathError when the
\* pointer does not resolve, and TestFailedError with the query's value as
\* expected and the document's as actual when it resolves to another value
\* (with no value it returns MissingValueError); the document is never changed.
C15_TestOutcomes ==
    (Applied /\ query.operation = "Test") =>
        LET found == Resolve(prev, PointerOf(query))
        IN  /\ json = prev
            /\ ~query.value.some => (~result.ok /\ result.err = "MissingValueError")
            /\ query.value.some =>
                   /\ (found.ok /\ found.v = query.value.v) =>
                          (result.ok /\ result.op = "Test" /\ result.err = "")
                   /\ ~found.ok => (~result.ok /\ result.err = "InvalidPathError")
                   /\ (found.ok /\ found.v # query.value.v) =>
                          /\ ~result.ok
                          /\ result.err = "TestFailedError"
                          /\ result.expected = query.value.v
                          /\ result.actual = found.v

\* a Test of 1 against a member that holds 2
C15_Witness ==
    /\ pc = "applied"
    /\ query.operation = "Test"
    /\ query.value = Some(N1)
    /\ Resolve(prev, PointerOf(query)) = [ok |-> TRUE, v |-> N2]
    /\ result.err = "TestFailedError"
    /\ result.expected = N1
    /\ result.actual = N2
    /\ json = prev

\* after is before with value put at the end of the path tokens: at a Key
\* step after is an object with the member, and its other members are those
\* before had as an object (none if it was not one); at an Index step after
\* is an array whose length is the larger of the old length and index + 1,
\* whose other slots are the old elements or null; the walk goes on from the
\* old member or slot, or from null where there was none.
RECURSIVE InsertedAs(_, _, _, _)
InsertedAs(before, after, tokens, value) ==
    IF tokens = <<>>
    THEN after = value
    ELSE LET tok == Head(tokens)
         IN  IF tok.k = "Key"
             THEN LET old == IF is_object(before) THEN before.o ELSE {}
                  IN  /\ is_object(after)
                      /\ HasKey(after, tok.name)
                      /\ {p \in after.o : p[1] # tok.name} = {p \in old : p[1] # tok.name}
                      /\ InsertedAs(IF \E p \in old : p[1] = tok.name
                                    THEN Get(before, tok.name) ELSE JNull,
                                    Get(after, tok.name), Tail(tokens), value)
             ELSE LET old == IF is_array(before) THEN before.a ELSE <<>>
                  IN  /\ is_array(after)
                      /\ Len(after.a) = Max(Len(old), tok.idx + 1)
                      /\ \A j \in 1..Len(after.a) :
                             j # tok.idx + 1 =>
                                 after.a[j] = IF j <= Len(old) THEN old[j] ELSE JNull
                      /\ InsertedAs(IF tok.idx + 1 <= Len(old)
                                    THEN old[tok.idx + 1] ELSE JNull,
                                    after.a[tok.idx + 1], Tail(tokens), value)

\* C16: Insert walks the path and creates it: at a Key step a node that is
\* not an object becomes an empty object and the member is created as null
\* if absent; at an Index step a node that is not an array becomes an empty
\* array, a shorter array is padded with nulls to length index + 1 and a
\* longer one keeps its length and its other elements; at the end of the
\* path the node is overwritten with the value, or with null if there is none.
C16_InsertCreatesPath ==
    (Applied /\ query.operation = "Insert") =>
        /\ result.ok
        /\ InsertedAs(prev, json, query.tokens,
                      IF query.value.some THEN query.value.v ELSE JNull)

\* [2, 2] with [0].a = 1 inserted: slot 0 is replaced by an object, slot 1 kept
C16_Witness ==
    /\ pc = "applied"
    /\ query = [tokens |-> <<Index(0), Key(KA)>>, value |-> Some(N1),
                operation |-> "Insert"]
    /\ prev = JArr(<<N2, N2>>)
    /\ json = JArr(<<JObj({<<KA, N1>>}), N2>>)

\* the container the path up to its last token addresses in doc
ParentOf(q, doc) == Resolve(doc, Front(PointerOf(q)))

\* the last token of the path as the patch reads it
LastOf(q) == Decode(Last(PointerOf(q)))

Failed(err) == ~result.ok /\ result.err = err /\ json = prev

\* the document with the parent container of the path replaced by container
WithParent(q, doc, container) == SetAt(doc, Front(PointerOf(q)), container)

C18_AddFailsOnExisting ==
    (/\ Applied
     /\ query.operation = "Add"
     /\ query.tokens # <<>>
     /\ ParentOf(query, prev).ok
     /\ is_object(ParentOf(query, prev).v)
     /\ HasKey(ParentOf(query, prev).v, LastOf(query))) =>
        /\ ~result.ok
        /\ Resolve(json, PointerOf(query)) = Resolve(prev, PointerOf(query))

\* after differs from before at most at the location the pointer tokens
\* address: along the way objects keep their member names and their other
\* members, arrays keep their length and their other elements
RECURSIVE SameExcept(_, _, _)
SameExcept(before, after, toks) ==
    IF toks = <<>>
    THEN TRUE
    ELSE LET tok == Decode(Head(toks))
         IN  IF is_object(before)
             THEN /\ is_object(after)
                  /\ Names(after) = Names(before)
                  /\ \A name \in Names(before) \ {tok} :
                         Get(after, name) = Get(before, name)
                  /\ SameExcept(Get(before, tok), Get(after, tok), Tail(toks))
             ELSE /\ is_array(after)
                  /\ Len(after.a) = Len(before.a)
                  /\ \A j \in 1..Len(before.a) :
                         j # to_index(tok).n + 1 => after.a[j] = before.a[j]
                  /\ SameExcept(before.a[to_index(tok).n + 1],
                                after.a[to_index(tok).n + 1], Tail(toks))

\* C19: a Replace query with a value returns Ok(Replace) and sets the
\* location its pointer addresses to the value, every other location and
\* every array length as before, when the pointer resolves; it returns
\* PatchError, the document unchanged, when the pointer does not resolve (a
\* missing member, an index >= length, a descent through a non-container).
\* With no value it returns MissingValueError.
C19_ReplaceSemantics ==
    (Applied /\ query.operation = "Replace") =>
        LET toks == PointerOf(query)
            found == Resolve(prev, toks)
        IN  /\ ~query.value.some => Failed("MissingValueError")
            /\ (query.value.some /\ found.ok) =>
                   /\ result.ok
                   /\ result.op = "Replace"
                   /\ Resolve(json, toks) = [ok |-> TRUE, v |-> query.value.v]
                   /\ SameExcept(prev, json, toks)
            /\ (query.value.some /\ ~found.ok) => Failed("PatchError")

\* b[1] of {"a": .., "b": [2, 1]} replaced: b stays two long, a as it was
C19_Witness ==
    /\ pc = "applied"
    /\ query.operation = "Replace"
    /\ query.value = Some(N1)
    /\ Len(query.tokens) = 2
    /\ Resolve(prev, PointerOf(query)) = [ok |-> TRUE, v |-> N2]
    /\ is_array(ParentOf(query, prev).v)
    /\ Len(ParentOf(query, json).v.a) = Len(ParentOf(query, prev).v.a)
    /\ json # prev
    /\ result.ok

\* C20: as_json of an Auto query is a list of exactly three elements: the
\* as_json of the same tokens and value with the operation Replace, then
\* with Add, then with Insert; the document is not touched.
C20_AutoRendering ==
    (pc = "rendered" /\ query.operation = "Auto") =>
        /\ is_array(rendered)
        /\ Len(rendered.a) = 3
        /\ \A i \in 1..3 :
               rendered.a[i] =
                   as_json([tokens |-> query.tokens, value |-> query.value,
                            operation |-> <<"Replace", "Add", "Insert">>[i]])
        /\ <<OpField, JStr(fmt("Replace"))>> \in rendered.a[1].a[1].o
        /\ <<OpField, JStr(fmt("Add"))>> \in rendered.a[2].a[1].o
        /\ json = base

\* a.b = 1 rendered: [[replace /a/b 1], [add /a/b 1], {"a": {"b": 1}}]
C20_Witness ==
    /\ pc = "rendered"
    /\ query = [tokens |-> <<Key(KA), Key(KB)>>, value |-> Some(N1), operation |-> "Auto"]
    /\ rendered.a[1] =
           JArr(<<JObj({<<OpField, JStr(<<"r", "e", "p", "l", "a", "c", "e">>)>>,
                        <<PathField, JStr(<<"/", "a", "/", "b">>)>>,
                        <<ValueField, N1>>})>>)
    /\ rendered.a[3] = JObj({<<KA, JObj({<<KB, N1>>})>>})
    /\ json = base

-----------------------------------------------------------------------------
(* Claims about as_json (Spec)                                             *)

\* the RFC 6901 pointer of a token path: "/" and the token, '~' written
\* "~0" and '/' written "~1", for every token
RECURSIVE Rfc6901Pointer(_)
Rfc6901Pointer(tokens) ==
    IF tokens = <<>>
    THEN <<>>
    ELSE LET tok == Head(tokens)
             text == IF tok.k = "Key" THEN tok.name ELSE to_string(tok.idx)
         IN  <<"/">> \o ReplaceChar(ReplaceChar(text, "~", <<"~", "0">>),
                                    "/", <<"~", "1">>)
             \o Rfc6901Pointer(Tail(tokens))

\* a rendered patch operation with the members it must have
PatchShape(q, pointer) ==
    IF q.operation = "Remove"
    THEN JObj({<<OpField, JStr(fmt(q.operation))>>, <<PathField, JStr(pointer)>>})
    ELSE JObj({<<OpField, JStr(fmt(q.operation))>>, <<PathField, JStr(pointer)>>,
               <<ValueField, IF q.value.some THEN q.value.v ELSE JNull>>})

\* C21: as_json of an Add, Replace or Test query is a list of one object
\* with exactly the members op (the lower-case operation name), path (the
\* RFC 6901 pointer of the tokens) and value (the query's value, or null
\* when it has none); of a Remove query, the same with op and path only.
C21_PatchRendering ==
    (pc = "rendered" /\ query.operation \in {"Add", "Replace", "Test", "Remove"}) =>
        /\ is_array(rendered)
        /\ Len(rendered.a) = 1
        /\ rendered.a[1] = PatchShape(query, Rfc6901Pointer(query.tokens))
        /\ fmt(query.operation) \in {<<"a", "d", "d">>, <<"t", "e", "s", "t">>,
                                     <<"r", "e", "p", "l", "a", "c", "e">>,
                                     <<"r", "e", "m", "o", "v", "e">>}

\* the text of the crate's example  >foo.bar[0].baz=hello
FooBarBaz ==
    <<">", "f", "o", "o", ".", "b", "a", "r", "[", "0", "]", ".", "b", "a", "z", "=",
      "h", "e", "l", "l", "o">>

\* {"foo": {"bar": [{"baz": "hello"}]}}
FooBarBazDoc ==
    JObj({<<<<"f", "o", "o">>,
            JObj({<<<<"b", "a", "r">>,
                    JArr(<<JObj({<<<<"b", "a", "z">>,
                                   JStr(<<"h", "e", "l", "l", "o">>)>>})>>)>>})>>})

\* C22: as_json of an Insert or Merge query is the document a path-creating
\* insert of the value at the tokens makes of a null root, and it is the
\* document apply_to of the query leaves when the document was null;
\* >foo.bar[0].baz=hello renders as {"foo": {"bar": [{"baz": "hello"}]}}.
C22_InsertRendering ==
    (pc \in {"rendered", "compared"} /\ query.operation \in {"Insert", "Merge"}) =>
        /\ InsertedAs(JNull, rendered, query.tokens,
                      IF query.value.some THEN query.value.v ELSE JNull)
        /\ (pc = "compared" /\ prev = JNull) => (result.ok /\ rendered = json)
        /\ as_json(parse_input(FooBarBaz, Dot).q) = FooBarBazDoc

\* [1].a = 1 merged into null and rendered: both [null, {"a": 1}]
C22_Witness ==
    /\ pc = "compared"
    /\ query = [tokens |-> <<Index(1), Key(KA)>>, value |-> Some(N1),
                operation |-> "Merge"]
    /\ prev = JNull
    /\ json = JArr(<<JNull, JObj({<<KA, N1>>})>>)
    /\ rendered = json

-----------------------------------------------------------------------------
(* Claims about parsed queries (ParseSpec), continued                      *)

\* the text of the path from position i up to position stop is the tokens
\* written one after the other, left to right: a key as its name, bare or
\* between quotes, an index as '[', digits of that value and ']', a '.'
\* between two segments and none needed before a bracket group
RECURSIVE Spells(_, _, _, _)
SpellsOn(str, k, rest, stop) ==
    IF rest = <<>>
    THEN k = stop
    ELSE \/ Char(str, k) = Dot /\ Spells(str, k + 1, rest, stop)
         \/ Head(rest).k = "Index" /\ Spells(str, k, rest, stop)

Spells(str, i, tokens, stop) ==
    LET tok == Head(tokens)
        n == Len(tok.name)
    IN  IF tok.k = "Index"
        THEN /\ Char(str, i) = "["
             /\ \E j \in (i + 2)..(stop - 1) :
                    /\ str[j] = "]"
                    /\ AllDigits(SubSeq(str, i + 1, j - 1))
                    /\ ParseDigits(SubSeq(str, i + 1, j - 1)) = tok.idx
                    /\ SpellsOn(str, j + 1, Tail(tokens), stop)
        ELSE \/ /\ i + n <= stop
                /\ SubSeq(str, i, i + n - 1) = tok.name
                /\ SpellsOn(str, i + n, Tail(tokens), stop)
             \/ /\ i + n + 2 <= stop
                /\ Char(str, i) = "\""
                /\ SubSeq(str, i + 1, i + n) = tok.name
                /\ Char(str, i + n + 1) = "\""
                /\ SpellsOn(str, i + n + 2, Tail(tokens), stop)

\* the bracket groups of the path: the '[' outside quotes
Brackets(str) ==
    {i \in PathStart(str)..(PathEnd(str) - 1) : str[i] = "[" /\ ~InQuotes(str, i)}

\* C25: the tokens of a parsed query are at least one, every Key has a name
\* of at least one character (a key in quotes too), and they are the path
\* read from left to right, one Index for every bracket group; an input
\* with nothing before the '=' or with the key "" does not parse.
C25_PathInvariants ==
    pc # "start" =>
        /\ parsed.ok =>
               LET tokens == parsed.q.tokens
               IN  /\ Len(tokens) >= 1
                   /\ \A k \in 1..Len(tokens) :
                          tokens[k].k = "Key" => tokens[k].name # <<>>
                   /\ Spells(input, PathStart(input), tokens, PathEnd(input))
                   /\ Cardinality({k \in 1..Len(tokens) : tokens[k].k = "Index"})
                          = Cardinality(Brackets(input))
        /\ PathEnd(input) = PathStart(input) => ~parsed.ok
        /\ (\E i \in PathStart(input)..(PathEnd(input) - 1) :
                 ~InQuotes(input, i) /\ input[i] = "\"" /\ Char(input, i + 1) = "\"") =>
               ~parsed.ok

\* -a[0]: a key and then its index
C25_Witness ==
    /\ pc = "parsed"
    /\ input = <<"-", "a", "[", "0", "]">>
    /\ parsed.q.tokens = <<Key(KA), Index(0)>>
    /\ Brackets(input) = {3}

\* C26: a parsed query has no value exactly when its operation is Remove: an
\* input of any other operation with no '=' after the path (key) or nothing
\* after the '=' (key=) does not parse.  apply_to of a parsed query never
\* returns MissingValueError; the same query with its value taken away by
\* hand returns it exactly for Add, Replace and Test, the document unchanged.
C26_ValuePresence ==
    pc # "start" =>
        /\ parsed.ok => (parsed.q.value.some <=> parsed.q.operation # "Remove")
        /\ (Char(input, 1) # "-" /\ ValueStart(input) > Len(input)) => ~parsed.ok
        /\ pc = "applied" =>
               LET bare == apply_to([query EXCEPT !.value = None], prev)
               IN  /\ result.err # "MissingValueError"
                   /\ bare.err = "MissingValueError"
                          <=> query.operation \in {"Add", "Replace", "Test"}
                   /\ bare.err = "MissingValueError" => (~bare.ok /\ bare.json = prev)

\* ?a=0 parsed and applied to a document with no member a
C26_Witness ==
    /\ pc = "applied"
    /\ input = <<"?", "a", "=", "0">>
    /\ query.value.some
    /\ result.err = "InvalidPathError"
    /\ apply_to([query EXCEPT !.value = None], prev).err = "MissingValueError"

C23_DefaultIsInsert ==
    (pc = "applied" /\ Char(input, 1) \notin operators) =>
        LET explicit == parse_input(<<">">> \o input, Dot)
        IN  /\ explicit.ok
            /\ explicit.q.tokens = query.tokens
            /\ explicit.q.value = query.value
            /\ json = apply_to(explicit.q, prev).json

-----------------------------------------------------------------------------
(* Claims about merge_json (MergeSpec), continued                          *)

\* At every position where b holds null, m holds null: the position is b
\* itself, or a member of b where a is an object too, or an element of b
\* where a is an array too (a position a does not have counts as null).
RECURSIVE NullsSet(_, _, _)
NullsSet(a, b, m) ==
    IF b = JNull
    THEN m = JNull
    ELSE IF is_object(a) /\ is_object(b)
         THEN /\ is_object(m)
              /\ \A name \in Names(b) :
                     /\ HasKey(m, name)
                     /\ NullsSet(IF HasKey(a, name) THEN Get(a, name) ELSE JNull,
                                 Get(b, name), Get(m, name))
         ELSE IF is_array(a) /\ is_array(b)
              THEN /\ is_array(m)
                   /\ Len(m.a) >= Len(b.a)
                   /\ \A i \in 1..Len(b.a) :
                          NullsSet(IF i <= Len(a.a) THEN a.a[i] ELSE JNull,
                                   b.a[i], m.a[i])
              ELSE m = b

\* C24: a null on the b side of a merge is a value like any other: the
\* position it is merged into holds null afterwards, the member or element
\* still present, neither deleted nor left with its old value.
C24_NullOverwrites == pc = "merged" => NullsSet(prev, other, json)

\* {"a": 2, ..} merged with {"a": null}: a is present and holds null
C24_Witness ==
    /\ pc = "merged"
    /\ other = JObj({<<KA, JNull>>})
    /\ is_object(prev)
    /\ HasKey(prev, KA)
    /\ Get(prev, KA) # JNull
    /\ HasKey(json, KA)
    /\ Get(json, KA) = JNull

-----------------------------------------------------------------------------
(* Claims about Merge and Auto on existing documents (Spec)                *)

\* the value the tokens lead to in doc: a Key into an object member, an
\* Index into an array element
RECURSIVE Walk(_, _)
Walk(doc, tokens) ==
    IF tokens = <<>>
    THEN [ok |-> TRUE, v |-> doc]
    ELSE LET tok == Head(tokens)
         IN  IF tok.k = "Key"
             THEN IF is_object(doc) /\ HasKey(doc, tok.name)
                  THEN Walk(Get(doc, tok.name), Tail(tokens))
                  ELSE Unresolved
             ELSE IF is_array(doc) /\ tok.idx < Len(doc.a)
                  THEN Walk(doc.a[tok.idx + 1], Tail(tokens))
                  ELSE Unresolved

\* C27: a Merge query whose path holds an array index i, applied to a
\* document that holds an array at that position, combines with the array:
\* every element of it at an index other than i keeps its value.
C27_MergeKeepsElements ==
    (pc = "applied" /\ query.operation = "Merge") =>
        \A k \in 1..Len(query.tokens) :
            LET before == Walk(prev, SubSeq(query.tokens, 1, k - 1))
                after == Walk(json, SubSeq(query.tokens, 1, k - 1))
            IN  (query.tokens[k].k = "Index" /\ before.ok /\ is_array(before.v)) =>
                    /\ after.ok
                    /\ is_array(after.v)
                    /\ Len(after.v.a) >= Len(before.v.a)
                    /\ \A j \in 1..Len(before.v.a) :
                           j # query.tokens[k].idx + 1 => after.v.a[j] = before.v.a[j]

\* the token does not fit the value it is applied to: a Key on anything but
\* an object, an Index on anything but an array or beyond its length
Clash(v, tok) ==
    IF tok.k = "Key" THEN ~is_object(v)
    ELSE ~is_array(v) \/ tok.idx > Len(v.a)

\* the position of the token at which the path meets a value it does not fit
ClashAt(doc, tokens) ==
    {k \in 1..Len(tokens) :
        /\ Walk(doc, SubSeq(tokens, 1, k - 1)).ok
        /\ Clash(Walk(doc, SubSeq(tokens, 1, k - 1)).v, tokens[k])}

\* Replace and Add were tried and failed with the document as it was, Insert
\* was returned and made the path, discarding what did not fit
FellToInsert ==
    /\ result.ok
    /\ result.op = "Insert"
    /\ TriedOps = <<"Replace", "Add", "Insert">>
    /\ ~trace[1].ok /\ trace[1].json = prev
    /\ ~trace[2].ok /\ trace[2].json = prev
    /\ InsertedAs(prev, json, query.tokens,
                  IF query.value.some THEN query.value.v ELSE JNull)

AsKeys(tokens) ==
    [i \in 1..Len(tokens) |->
        IF tokens[i].k = "Index" THEN Key(to_string(tokens[i].idx)) ELSE tokens[i]]

\* the tokens with every Key of decimal digits written as the Index
AsIndices(tokens) ==
    [i \in 1..Len(tokens) |->
        IF tokens[i].k = "Key" /\ AllDigits(tokens[i].name)
              /\ to_string(ParseDigits(tokens[i].name)) = tokens[i].name
        THEN Index(ParseDigits(tokens[i].name)) ELSE tokens[i]]

\* what apply_to returns and leaves of the document, the trials included
SameEffect(a, b) == a = b

\* C30: Add, Replace, Remove and Test, and the Replace and Add trials of
\* Auto, see the tokens through the rendered pointer only: the query with
\* its Index tokens written as Keys of their digits, or its Keys of digits
\* written as Index tokens, renders the same pointer and has the same effect
\* on the document and the same result.  Insert and Merge tell the two
\* apart: with an Index the position holds an array, with the Key an object.
C30_PointerErasure ==
    pc = "applied" =>
        LET keys == [query EXCEPT !.tokens = AsKeys(query.tokens)]
            indices == [query EXCEPT !.tokens = AsIndices(query.tokens)]
            here == apply_to(query, prev)
        IN  /\ tokens_to_pointer(keys.tokens) = tokens_to_pointer(query.tokens)
            /\ tokens_to_pointer(indices.tokens) = tokens_to_pointer(query.tokens)
            /\ here.json = json
            /\ query.operation \in {"Add", "Replace", "Remove", "Test"} =>
                   /\ SameEffect(apply_to(keys, prev), here)
                   /\ SameEffect(apply_to(indices, prev), here)
            /\ query.operation = "Auto" =>
                   \A other_tokens \in {keys, indices} :
                       LET there == apply_to(other_tokens, prev)
                       IN  /\ there.trace[1] = here.trace[1]
                           /\ Len(here.trace) >= 2 =>
                                  (Len(there.trace) >= 2 /\ there.trace[2] = here.trace[2])
                           /\ here.op \in {"Replace", "Add"} => SameEffect(there, here)
            /\ (query.operation \in {"Insert", "Merge"} /\ keys.tokens # query.tokens) =>
                   /\ apply_to(keys, prev).json # json
                   /\ \E k \in 1..Len(query.tokens) :
                          /\ query.tokens[k].k = "Index"
                          /\ is_array(Walk(json, SubSeq(query.tokens, 1, k - 1)).v)
                          /\ is_object(Walk(apply_to(keys, prev).json,
                                            SubSeq(keys.tokens, 1, k - 1)).v)

\* b[1] = 1 added to {"b": [2, 1], ..} and b.1 = 1 added to it: both [2, 1, 1]
C30_Witness ==
    /\ pc = "applied"
    /\ query = [tokens |-> <<Key(KB), Key(KOne)>>, value |-> Some(N1), operation |-> "Add"]
    /\ Walk(prev, <<Key(KB)>>).v = JArr(<<N2, N1>>)
    /\ Walk(json, <<Key(KB)>>).v = JArr(<<N2, N1, N1>>)
    /\ apply_to([query EXCEPT !.tokens = <<Key(KB), Index(1)>>], prev).json = json

=============================================================================
